---- MODULE Spec2Model ----
(***************************************************************************)
(* Knowledge-base retrieval subsystem of the ISS chatbot backend           *)
(* (src/app.py): the SQL document store, the module-level globals          *)
(* faiss_index and mapping, the snapshot files, build_index_from_db,       *)
(* init_index, retrieve_context and the /kb and /chat handlers.            *)
(*                                                                         *)
(* The handlers are plain `def` functions, which FastAPI runs on a thread  *)
(* pool: every read or write of the store, of a module global or of a      *)
(* snapshot file is one step of the calling thread, and steps of           *)
(* different threads interleave freely.                                    *)
(***************************************************************************)
EXTENDS Integers, Sequences, FiniteSets, TLC

\* ------------------------------------------------------------------ bounds
MaxRows == 2      \* rows the store may hold
MaxId == 2        \* largest primary key an add may assign
MaxTopK == 3      \* largest top_k a caller passes to retrieve_context
MaxOverlaps == 1  \* calls that may arrive while another call is being served
MaxTally == 3     \* rebuilds since startup that the tally counts

Threads == {1, 2}
\* KBIn bodies a caller sends
Items == { [title |-> "T1", content |-> "c1"], [title |-> "T2", content |-> "c2"] }
Queries == {"q1"}

\* ------------------------------------------------------- external services
\* EMBED_MODEL.encode: deterministic, one vector per text (one dimension here).
Embed(text) ==
    CASE text = "c1" -> 0
      [] text = "c2" -> 4
      [] text = "q1" -> 1
      [] OTHER -> 9

\* IndexFlatL2 metric: squared Euclidean distance.
Dist(a, b) == (a - b) * (a - b)

Min(a, b) == IF a < b THEN a ELSE b

Range(s) == {s[i] : i \in 1..Len(s)}

\* [f(x) for x in s]
RECURSIVE EncodeAll(_)
EncodeAll(texts) ==
    IF texts = <<>> THEN <<>>
    ELSE <<Embed(Head(texts))>> \o EncodeAll(Tail(texts))

\* ------------------------------------------------------------ credentials
\* A bearer token as jwt.decode sees it.
Tokens ==
    { [present |-> FALSE, sig |-> FALSE, expired |-> FALSE, sub |-> ""],
      [present |-> TRUE,  sig |-> FALSE, expired |-> FALSE, sub |-> "admin"],
      [present |-> TRUE,  sig |-> TRUE,  expired |-> TRUE,  sub |-> "admin"],
      [present |-> TRUE,  sig |-> TRUE,  expired |-> FALSE, sub |-> ""],
      [present |-> TRUE,  sig |-> TRUE,  expired |-> FALSE, sub |-> "admin"] }

None == "None"

\* (mutant) verify_token that does not check the expiry claim
verify_token_no_expiry(token) ==
    IF token.present /\ token.sig THEN token.sub ELSE None

\* verify_token: the subject of a token that decodes, None otherwise.
verify_token(token) ==
    IF token.present /\ token.sig /\ ~token.expired THEN token.sub ELSE None

\* must_auth: TRUE when the call goes on, FALSE when it raises 'Unauthorized'
\* (`if not sub`: None and the empty subject are both rejected).
must_auth(token) ==
    LET sub == verify_token(token) IN sub # None /\ sub # ""

\* ------------------------------------------------------------------- store
\* KBEntry rows, kept in primary-key order (the order of query(KBEntry).all()).
\* (mutant) the lookup without its filter on the key: any first row will do
HasIdUnfiltered(st, id) == st # <<>>

HasId(st, id) == \E i \in 1..Len(st) : st[i].id = id

RECURSIVE MaxIdOf(_)
MaxIdOf(st) ==
    IF st = <<>> THEN 0
    ELSE LET m == MaxIdOf(Tail(st)) IN IF Head(st).id > m THEN Head(st).id ELSE m

\* INTEGER PRIMARY KEY without AUTOINCREMENT: one more than the largest key in use.
NextId(st) == MaxIdOf(st) + 1

InsertRow(st, title, content) ==
    Append(st, [id |-> NextId(st), title |-> title, content |-> content])

UpdateRow(st, id, title, content) ==
    [i \in 1..Len(st) |->
        IF st[i].id = id THEN [id |-> id, title |-> title, content |-> content]
        ELSE st[i]]

\* (mutant) the delete without its filter on the key: the first row goes
DeleteFirstRow(st, id) == IF st = <<>> THEN <<>> ELSE Tail(st)

RECURSIVE DeleteRow(_, _)
DeleteRow(st, id) ==
    IF st = <<>> THEN <<>>
    ELSE IF Head(st).id = id THEN DeleteRow(Tail(st), id)
    ELSE <<Head(st)>> \o DeleteRow(Tail(st), id)

\* (mutant) the rows taken in descending key order
MapOfDescending(rs) ==
    [i \in 1..Len(rs) |-> [title |-> rs[Len(rs) + 1 - i].title,
                           content |-> rs[Len(rs) + 1 - i].content]]

\* [{'title': r.title, 'content': r.content} for r in rows]
MapOf(rs) == [i \in 1..Len(rs) |-> [title |-> rs[i].title, content |-> rs[i].content]]

\* [m['content'] for m in mapping]
TextsOf(m) == [i \in 1..Len(m) |-> m[i].content]

\* ------------------------------------------------------------ vector index
\* faiss_index: None, or the vectors of an IndexFlatL2 in slot order.
NoIndex == [present |-> FALSE, vecs |-> <<>>]
IndexOf(vs) == [present |-> TRUE, vecs |-> vs]

\* A snapshot file that was never written.
NoFile == [present |-> FALSE, data |-> <<>>]
FileOf(d) == [present |-> TRUE, data |-> d]


\* IndexFlatL2.search(qvec, k): the labels I[0] of the k nearest slots (0-based)
\* by non-decreasing distance, padded with -1 when the index holds fewer than k
\* vectors. The order among equidistant slots is the library's business: every
\* order is allowed.
SearchResults(vecs, qv, k) ==
    LET n == Len(vecs)
        m == Min(k, n)
    IN { L \in [1..k -> (-1)..(n - 1)] :
           /\ \A j \in 1..m : L[j] >= 0
           /\ \A j \in (m + 1)..k : L[j] = -1
           /\ \A a, b \in 1..m :
                a < b => /\ L[a] # L[b]
                         /\ Dist(vecs[L[a] + 1], qv) <= Dist(vecs[L[b] + 1], qv)
           /\ \A s \in 0..(n - 1) :
                (\A j \in 1..m : L[j] # s)
                    => \A j \in 1..m : Dist(vecs[L[j] + 1], qv) <= Dist(vecs[s + 1], qv) }

\* Python's list[i]: a negative i counts from the end.
InRange(seq, i) == i < Len(seq) /\ i >= 0 - Len(seq)
PyIndex(seq, i) == IF i >= 0 THEN seq[i + 1] ELSE seq[Len(seq) + 1 + i]

\* '\n'.join(res), a string being the sequence of its pieces.
RECURSIVE Join(_)
Join(parts) ==
    IF parts = <<>> THEN <<>>
    ELSE IF Len(parts) = 1 THEN <<parts[1]>>
    ELSE <<parts[1], "\n">> \o Join(Tail(parts))

\* ------------------------------------------------------------ static KB file
\* data/knowledge_base.json: absent, or a list of documents; a document may lack
\* its title.
Missing == "<missing>"
StaticDocs ==
    { <<[title |-> Missing, content |-> "c2"], [title |-> "T2", content |-> "c1"]>> }

\* {'title': d.get('title',''), 'content': d.get('content','')}
DocMapping(docs) ==
    [i \in 1..Len(docs) |->
        [title |-> IF docs[i].title = Missing THEN "" ELSE docs[i].title,
         content |-> docs[i].content]]

\* ------------------------------------------------------------------- state
VARIABLES
    store,          \* rows of table knowledge_base, in primary-key order
    kbfile,         \* data/knowledge_base.json
    overlaps,       \* calls so far that arrived while another was being served
    faiss_index,    \* module global faiss_index
    mapping,        \* module global mapping
    index_file,     \* INDEX_PATH
    mapping_file,   \* MAPPING_PATH
    pc,             \* where each worker thread stands in its handler
    op,             \* the call a thread is serving
    rows,           \* build_index_from_db: local rows
    idx,            \* build_index_from_db: local idx
    I,              \* retrieve_context: local I[0]
    pos,            \* retrieve_context: position of the loop in I[0]
    res,            \* retrieve_context: local res
    wrote,          \* history: this run of build_index_from_db has changed a global
    last,           \* the response the step just taken returned, if any (prev: what
                    \* `latest` was while the call was being served)
    overlapped,     \* history: mutations in flight that overlapped another one
    owner,          \* history: the thread whose commit is the store's latest
    latest,         \* history: what became of the latest committed mutation
    embedFailed,    \* history: encode has raised since a rebuild last ran alone to its end
    rt,             \* history: monitor of an add followed at once by its delete
    tally,          \* history: rebuilds run and mutations acknowledged since startup
    issued          \* history: every primary key the store has held

shared == <<store, faiss_index, mapping, index_file, mapping_file>>
env == <<kbfile, overlaps>>
locals == <<rows, idx, I, pos, res, wrote>>
ghost == <<overlapped, owner, latest, issued>>
vars == <<store, kbfile, overlaps, faiss_index, mapping, index_file, mapping_file,
          pc, op, rows, idx, I, pos, res, wrote, last, overlapped, owner, latest,
          embedFailed, rt, tally, issued>>

NoOp == [kind |-> "none", id |-> 0, title |-> "", content |-> "", q |-> "", k |-> 0]
NoLast == [kind |-> "none", status |-> "none", k |-> 0, q |-> "", ret |-> <<>>,
           wrote |-> FALSE, prev |-> "none"]
RtIdle == [phase |-> "idle", id |-> 0, pre |-> {}, static |-> FALSE]
\* The tally is kept while calls are served one at a time and no rebuild has
\* failed, for the first MaxTally rebuilds; after that it is off.
TallyOff == [on |-> FALSE, builds |-> 0, acks |-> 0]

BuildPcs == {"b_query", "b_setmap", "b_test", "b_none", "b_encode",
             "b_write_mapping", "b_install"}
\* threads between their commit and the end of their rebuild
InFlight == {t \in Threads : pc[t] \in BuildPcs \cup {"a_refresh", "u_refresh"}}
AllIdle == \A t \in Threads : pc[t] = "idle"

\* EMBED_MODEL.encode answers, or raises
EncodeOutcomes == {TRUE, FALSE}

\* ------------------------------------------------------------------- start
InitStores == { <<>>, <<[id |-> 1, title |-> "T1", content |-> "c1"]>> }

\* init_index(), run once at import: the globals and snapshot files it leaves.
init_index(st, kb) ==
    IF Len(st) > 0
    THEN LET m == MapOf(st)
             emb == EncodeAll(TextsOf(m))
         IN [mapping |-> m, faiss_index |-> IndexOf(emb),
             index_file |-> FileOf(emb), mapping_file |-> FileOf(m)]
    ELSE IF kb.present
    THEN LET m == DocMapping(kb.data)
             emb == EncodeAll([i \in 1..Len(kb.data) |-> kb.data[i].content])
         IN [mapping |-> m, faiss_index |-> IndexOf(emb),
             index_file |-> FileOf(emb), mapping_file |-> FileOf(m)]
    ELSE [mapping |-> <<>>, faiss_index |-> NoIndex,
          index_file |-> NoFile, mapping_file |-> NoFile]

Init ==
    /\ store \in InitStores
    /\ kbfile \in {NoFile} \cup {FileOf(d) : d \in StaticDocs}
    /\ overlaps = 0
    /\ LET g == init_index(store, kbfile)
       IN /\ mapping = g.mapping
          /\ faiss_index = g.faiss_index
          /\ index_file = g.index_file
          /\ mapping_file = g.mapping_file
    /\ pc = [t \in Threads |-> "idle"]
    /\ op = [t \in Threads |-> NoOp]
    /\ rows = [t \in Threads |-> <<>>]
    /\ idx = [t \in Threads |-> <<>>]
    /\ I = [t \in Threads |-> <<>>]
    /\ pos = [t \in Threads |-> 0]
    /\ res = [t \in Threads |-> <<>>]
    /\ wrote = [t \in Threads |-> FALSE]
    /\ last = NoLast
    /\ overlapped = {}
    /\ owner = 0
    /\ latest = "none"
    /\ embedFailed = FALSE
    /\ rt = RtIdle
    /\ tally = [on |-> TRUE, builds |-> 0, acks |-> 0]
    /\ issued = {store[i].id : i \in 1..Len(store)}

\* ----------------------------------------------------------- bookkeeping
\* The rebuild of thread t ran to its end with no other mutation in flight.
Reconciles(t, status) ==
    status = "ok" /\ pc[t] \in BuildPcs /\ t \notin overlapped /\ InFlight = {t}

\* The handler of thread t returns (or raises): its response becomes the last one.
Return(t, status, result) ==
    /\ pc' = [pc EXCEPT ![t] = "idle"]
    /\ last' = [kind |-> op[t].kind, status |-> status,
                k |-> op[t].k, q |-> op[t].q, ret |-> result, wrote |-> wrote[t],
                prev |-> IF op[t].kind # "chat" /\ status = "ok" THEN latest
                         ELSE "none"]
    /\ op' = [op EXCEPT ![t] = NoOp]
    /\ rows' = [rows EXCEPT ![t] = <<>>]
    /\ idx' = [idx EXCEPT ![t] = <<>>]
    /\ I' = [I EXCEPT ![t] = <<>>]
    /\ pos' = [pos EXCEPT ![t] = 0]
    /\ res' = [res EXCEPT ![t] = <<>>]
    /\ wrote' = [wrote EXCEPT ![t] = FALSE]
    /\ embedFailed' = IF status = "EmbedError" THEN TRUE
                      ELSE IF Reconciles(t, status) THEN FALSE
                      ELSE embedFailed
    /\ tally' = IF ~tally.on \/ op[t].kind = "chat" THEN tally
                ELSE IF status = "ok" THEN [tally EXCEPT !.acks = tally.acks + 1]
                ELSE TallyOff

\* A call that is turned away on entry: nothing of the thread changes.
Reject(t, kind, status) ==
    /\ last' = [kind |-> kind, status |-> status, k |-> 0, q |-> "",
                ret |-> <<>>, wrote |-> FALSE, prev |-> "none"]
    /\ UNCHANGED <<pc, op, locals, embedFailed>>

\* history: thread t commits a mutation. The commit is a "retry" when the rebuild
\* of the mutation before it failed on the embedding call, and "again" when it
\* leaves the store as the last completed rebuild read it.
NoteCommit(t) ==
    /\ overlapped' = IF InFlight \ {t} # {} THEN overlapped \cup InFlight \cup {t}
                     ELSE overlapped \ {t}
    /\ owner' = t
    /\ latest' = IF latest = "embed_failed" THEN "retry"
                 ELSE IF latest \in {"none", "ok_solo"} /\ store' = store THEN "again"
                 ELSE "inflight"
    /\ issued' = issued \cup {store'[i].id : i \in 1..Len(store')}

\* history: the mutation of thread t ends with `status`
NoteEnd(t, status) ==
    /\ overlapped' = overlapped \ {t}
    /\ owner' = IF owner = t THEN 0 ELSE owner
    /\ latest' = IF owner # t THEN latest
                 ELSE IF status = "EmbedError" THEN "embed_failed"
                 ELSE IF status # "ok" THEN "failed"
                 ELSE IF t \in overlapped THEN "ok_overlapped"
                 ELSE "ok_solo"
    /\ UNCHANGED issued

\* history: the add / delete pair under watch
RtEnd(t, status) ==
    rt' = IF status = "ok" /\ rt.phase = "adding" /\ op[t].kind = "add"
          THEN [rt EXCEPT !.phase = "added"]
          ELSE IF status = "ok" /\ rt.phase = "deleting" /\ op[t].kind = "delete"
          THEN [rt EXCEPT !.phase = "done"]
          ELSE RtIdle

\* the handler's build_index_from_db(db) has returned: 200
Acknowledge(t) ==
    /\ Return(t, "ok", <<>>)
    /\ NoteEnd(t, "ok")
    /\ RtEnd(t, "ok")

\* an exception after the commit: 500
Fail(t, status) ==
    /\ Return(t, status, <<>>)
    /\ NoteEnd(t, status)
    /\ rt' = RtIdle

Goto(t, label) == pc' = [pc EXCEPT ![t] = label]

\* ---------------------------------------------------------------- POST /kb
\* add_kb up to db.commit(): must_auth, then the INSERT.
AddKb(t, token, title, content) ==
    /\ pc[t] = "idle"
    /\ must_auth(token) => Len(store) < MaxRows /\ NextId(store) <= MaxId
    /\ IF ~must_auth(token)
       THEN /\ Reject(t, "add", "Unauthorized")
            /\ rt' = RtIdle
            /\ UNCHANGED <<shared, kbfile, ghost>>
       ELSE /\ store' = InsertRow(store, title, content)
            /\ op' = [op EXCEPT ![t] = [kind |-> "add", id |-> NextId(store),
                                        title |-> "", content |-> "",
                                        q |-> "", k |-> 0]]
            /\ Goto(t, "a_refresh")
            /\ NoteCommit(t)
            /\ rt' = IF \A u \in Threads \ {t} : pc[u] = "idle"
                     THEN [phase |-> "adding", id |-> NextId(store),
                           pre |-> Range(mapping),
                           static |-> (store = <<>> /\ kbfile.present /\ latest = "none")]
                     ELSE RtIdle
            /\ last' = NoLast /\ UNCHANGED embedFailed
            /\ UNCHANGED <<faiss_index, mapping, index_file, mapping_file, kbfile,
                           locals>>

\* db.refresh(row) of add_kb and update_kb: the row is read back by its key and
\* the call raises when it is gone.
Refresh(t) ==
    /\ pc[t] \in {"a_refresh", "u_refresh"}
    /\ IF HasId(store, op[t].id)
       THEN /\ Goto(t, "b_query")
            /\ op' = [op EXCEPT ![t].id = 0]
            /\ last' = NoLast /\ UNCHANGED <<embedFailed, tally>>
            /\ UNCHANGED <<shared, env, locals, ghost, rt>>
       ELSE /\ Fail(t, "Error")
            /\ UNCHANGED <<shared, env>>

\* ----------------------------------------------------------- PUT /kb/{id}
\* update_kb up to the lookup of the row.
UpdateKb(t, token, id, title, content) ==
    /\ pc[t] = "idle"
    /\ rt' = RtIdle
    /\ IF ~must_auth(token)
       THEN /\ Reject(t, "update", "Unauthorized")
            /\ UNCHANGED <<shared, kbfile, ghost>>
       ELSE IF ~HasId(store, id)
       THEN /\ Reject(t, "update", "NotFound")
            /\ UNCHANGED <<shared, kbfile, ghost>>
       ELSE /\ op' = [op EXCEPT ![t] = [kind |-> "update", id |-> id,
                                        title |-> title, content |-> content,
                                        q |-> "", k |-> 0]]
            /\ Goto(t, "u_commit")
            /\ last' = NoLast /\ UNCHANGED embedFailed
            /\ UNCHANGED <<shared, kbfile, locals, ghost>>

\* row.title = ...; row.content = ...; db.commit(): the UPDATE raises when the
\* row has been deleted since the lookup.
UpdateCommit(t) ==
    /\ pc[t] = "u_commit"
    /\ IF HasId(store, op[t].id)
       THEN /\ store' = UpdateRow(store, op[t].id, op[t].title, op[t].content)
            /\ op' = [op EXCEPT ![t].title = "", ![t].content = ""]
            /\ Goto(t, "u_refresh")
            /\ NoteCommit(t)
            /\ last' = NoLast /\ UNCHANGED <<embedFailed, tally>>
            /\ UNCHANGED <<faiss_index, mapping, index_file, mapping_file, env,
                           locals, rt>>
       ELSE /\ Return(t, "Error", <<>>)
            /\ rt' = RtIdle
            /\ UNCHANGED <<shared, env, ghost>>

\* -------------------------------------------------------- DELETE /kb/{id}
\* delete_kb up to the lookup of the row.
DeleteKb(t, token, id) ==
    /\ pc[t] = "idle"
    /\ IF ~must_auth(token)
       THEN /\ Reject(t, "delete", "Unauthorized")
            /\ rt' = RtIdle
            /\ UNCHANGED <<shared, kbfile, ghost>>
       ELSE IF ~HasId(store, id)
       THEN /\ Reject(t, "delete", "NotFound")
            /\ rt' = RtIdle
            /\ UNCHANGED <<shared, kbfile, ghost>>
       ELSE /\ op' = [op EXCEPT ![t] = [kind |-> "delete", id |-> id,
                                        title |-> "", content |-> "",
                                        q |-> "", k |-> 0]]
            /\ Goto(t, "d_commit")
            /\ rt' = IF rt.phase = "added" /\ rt.id = id
                     THEN [rt EXCEPT !.phase = "deleting"]
                     ELSE RtIdle
            /\ last' = NoLast /\ UNCHANGED embedFailed
            /\ UNCHANGED <<shared, kbfile, locals, ghost>>

\* (mutant) delete_kb that returns after its commit, without build_index_from_db
DeleteCommitNoRebuild(t) ==
    /\ pc[t] = "d_commit"
    /\ store' = DeleteRow(store, op[t].id)
    /\ Return(t, "ok", <<>>)
    /\ overlapped' = overlapped \ {t}
    /\ owner' = 0
    /\ latest' = IF InFlight = {} THEN "ok_solo" ELSE "ok_overlapped"
    /\ UNCHANGED issued
    /\ rt' = RtIdle
    /\ UNCHANGED <<faiss_index, mapping, index_file, mapping_file, env>>

\* db.delete(row); db.commit(): a DELETE that matches no row only warns.
DeleteCommit(t) ==
    /\ pc[t] = "d_commit"
    /\ store' = DeleteRow(store, op[t].id)
    /\ op' = [op EXCEPT ![t].id = 0]
    /\ Goto(t, "b_query")
    /\ NoteCommit(t)
    /\ last' = NoLast /\ UNCHANGED <<embedFailed, tally>>
    /\ UNCHANGED <<faiss_index, mapping, index_file, mapping_file, env,
                   locals, rt>>

\* ---------------------------------------------------- build_index_from_db
\* rows = db.query(KBEntry).all()
BuildQuery(t) ==
    /\ pc[t] = "b_query"
    /\ rows' = [rows EXCEPT ![t] = store]
    /\ Goto(t, "b_setmap")
    /\ last' = NoLast /\ UNCHANGED embedFailed
    /\ tally' = IF tally.on /\ tally.builds < MaxTally
                THEN [tally EXCEPT !.builds = tally.builds + 1]
                ELSE TallyOff
    /\ UNCHANGED <<shared, env, op, idx, I, pos, res, wrote, ghost, rt>>

\* (mutant) a rebuild that returns at once when the mapping would not change
BuildSetMappingSkipsUnchanged(t) ==
    /\ pc[t] = "b_setmap"
    /\ IF MapOf(rows[t]) = mapping
       THEN /\ Acknowledge(t)
            /\ UNCHANGED <<shared, env>>
       ELSE /\ mapping' = MapOf(rows[t])
            /\ wrote' = [wrote EXCEPT ![t] = TRUE]
            /\ Goto(t, "b_test")
            /\ last' = NoLast /\ UNCHANGED <<embedFailed, tally>>
            /\ UNCHANGED <<store, faiss_index, index_file, mapping_file, env, op,
                           rows, idx, I, pos, res, ghost, rt>>

\* mapping = [{'title': r.title, 'content': r.content} for r in rows]
BuildSetMapping(t) ==
    /\ pc[t] = "b_setmap"
    /\ mapping' = MapOf(rows[t])
    /\ wrote' = [wrote EXCEPT ![t] = (mapping' # mapping)]
    /\ Goto(t, "b_test")
    /\ last' = NoLast /\ UNCHANGED <<embedFailed, tally>>
    /\ UNCHANGED <<store, faiss_index, index_file, mapping_file, env, op,
                   rows, idx, I, pos, res, ghost, rt>>

\* if not mapping:
BuildTest(t) ==
    /\ pc[t] = "b_test"
    /\ Goto(t, IF mapping = <<>> THEN "b_none" ELSE "b_encode")
    /\ last' = NoLast /\ UNCHANGED <<embedFailed, tally>>
    /\ UNCHANGED <<shared, env, op, locals, ghost, rt>>

\* (mutant) the empty branch that returns without clearing faiss_index
BuildNoneKeepsIndex(t) ==
    /\ pc[t] = "b_none"
    /\ Acknowledge(t)
    /\ UNCHANGED <<shared, env>>

\* faiss_index = None; return
BuildNone(t) ==
    /\ pc[t] = "b_none"
    /\ faiss_index' = NoIndex
    /\ Acknowledge(t)
    /\ UNCHANGED <<store, mapping, index_file, mapping_file, env>>

\* texts = [m['content'] for m in mapping]; emb = encode(texts);
\* idx = IndexFlatL2(dim); idx.add(emb); faiss.write_index(idx, INDEX_PATH).
\* An empty batch has no second dimension and raises like a failed call.
BuildEncode(t) ==
    /\ pc[t] = "b_encode"
    /\ \E answered \in EncodeOutcomes :
         IF answered /\ mapping # <<>>
         THEN /\ idx' = [idx EXCEPT ![t] = EncodeAll(TextsOf(mapping))]
              /\ index_file' = FileOf(EncodeAll(TextsOf(mapping)))
              /\ Goto(t, "b_write_mapping")
              /\ last' = NoLast /\ UNCHANGED <<embedFailed, tally>>
              /\ UNCHANGED <<store, faiss_index, mapping, mapping_file, env, op,
                             rows, I, pos, res, wrote, ghost, rt>>
         ELSE /\ Fail(t, IF mapping = <<>> THEN "Error" ELSE "EmbedError")
              /\ UNCHANGED <<shared, env>>

\* json.dump(mapping, f)
BuildWriteMapping(t) ==
    /\ pc[t] = "b_write_mapping"
    /\ mapping_file' = FileOf(mapping)
    /\ Goto(t, "b_install")
    /\ last' = NoLast /\ UNCHANGED <<embedFailed, tally>>
    /\ UNCHANGED <<store, faiss_index, mapping, index_file, env, op, locals,
                   ghost, rt>>

\* (mutant) the new vectors are added to the index in use instead of replacing it
BuildInstallAddsToIndex(t) ==
    /\ pc[t] = "b_install"
    /\ faiss_index' = IndexOf(faiss_index.vecs \o idx[t])
    /\ Acknowledge(t)
    /\ UNCHANGED <<store, mapping, index_file, mapping_file, env>>

\* faiss_index = idx, and the handler returns
BuildInstall(t) ==
    /\ pc[t] = "b_install"
    /\ faiss_index' = IndexOf(idx[t])
    /\ Acknowledge(t)
    /\ UNCHANGED <<store, mapping, index_file, mapping_file, env>>

\* ------------------------------------------------- POST /chat, retrieve_context
\* chat(inp) calls retrieve_context(query, top_k)
Chat(t, q, k) ==
    /\ pc[t] = "idle"
    /\ op' = [op EXCEPT ![t] = [kind |-> "chat", id |-> 0, title |-> "",
                                content |-> "", q |-> q, k |-> k]]
    /\ Goto(t, "q_isnone")
    /\ rt' = RtIdle
    /\ last' = NoLast /\ UNCHANGED embedFailed
    /\ UNCHANGED <<shared, kbfile, locals, ghost>>

\* the context is handed back to chat (200), or the call raised (500)
QueryReturn(t, status, result) ==
    /\ Return(t, status, result)
    /\ rt' = RtIdle
    /\ UNCHANGED <<shared, env, ghost>>

\* (mutant) a query that finds no index runs the rebuild itself
QueryIsNoneRebuilds(t) ==
    /\ pc[t] = "q_isnone"
    /\ Goto(t, IF ~faiss_index.present THEN "b_query" ELSE "q_ntotal")
    /\ last' = NoLast /\ UNCHANGED <<embedFailed, tally>>
    /\ UNCHANGED <<shared, env, op, locals, ghost, rt>>

\* if faiss_index is None ... : return ''
QueryIsNone(t) ==
    /\ pc[t] = "q_isnone"
    /\ IF ~faiss_index.present
       THEN QueryReturn(t, "ok", Join(<<>>))
       ELSE /\ Goto(t, "q_ntotal")
            /\ last' = NoLast /\ UNCHANGED <<embedFailed, tally>>
            /\ UNCHANGED <<shared, env, op, locals, ghost, rt>>

\* ... or faiss_index.ntotal == 0: return ''   (the global is read again)
QueryNtotal(t) ==
    /\ pc[t] = "q_ntotal"
    /\ IF ~faiss_index.present
       THEN QueryReturn(t, "Error", <<>>)
       ELSE IF Len(faiss_index.vecs) = 0
       THEN QueryReturn(t, "ok", Join(<<>>))
       ELSE /\ Goto(t, "q_search")
            /\ last' = NoLast /\ UNCHANGED <<embedFailed, tally>>
            /\ UNCHANGED <<shared, env, op, locals, ghost, rt>>

\* After the last label of I[0]: return '\n'.join(res)
QueryNext(t, r) ==
    IF pos[t] = Len(I[t])
    THEN QueryReturn(t, "ok", Join(r))
    ELSE /\ pos' = [pos EXCEPT ![t] = pos[t] + 1]
         /\ res' = [res EXCEPT ![t] = r]
         /\ Goto(t, "q_len")
         /\ last' = NoLast /\ UNCHANGED <<embedFailed, tally>>
         /\ UNCHANGED <<shared, env, op, rows, idx, I, wrote, ghost, rt>>

\* qvec = encode([query]); D, I = faiss_index.search(qvec, top_k)
QuerySearch(t) ==
    /\ pc[t] = "q_search"
    /\ \E answered \in EncodeOutcomes :
         IF answered /\ faiss_index.present
         THEN \E L \in SearchResults(faiss_index.vecs, Embed(op[t].q), op[t].k) :
                /\ I' = [I EXCEPT ![t] = L]
                /\ pos' = [pos EXCEPT ![t] = 1]
                /\ res' = [res EXCEPT ![t] = <<>>]
                /\ Goto(t, "q_len")
                /\ last' = NoLast /\ UNCHANGED <<embedFailed, tally>>
                /\ UNCHANGED <<shared, env, op, rows, idx, wrote, ghost, rt>>
         ELSE QueryReturn(t, IF answered THEN "Error" ELSE "EmbedError", <<>>)

\* for i in I[0]: if i < len(mapping):
QueryLen(t) ==
    /\ pc[t] = "q_len"
    /\ IF I[t][pos[t]] < Len(mapping)
       THEN /\ Goto(t, "q_get")
            /\ last' = NoLast /\ UNCHANGED <<embedFailed, tally>>
            /\ UNCHANGED <<shared, env, op, locals, ghost, rt>>
       ELSE QueryNext(t, res[t])

\* res.append(mapping[i]['content'])
QueryGet(t) ==
    /\ pc[t] = "q_get"
    /\ IF InRange(mapping, I[t][pos[t]])
       THEN QueryNext(t, Append(res[t], PyIndex(mapping, I[t][pos[t]]).content))
       ELSE QueryReturn(t, "Error", <<>>)

\* ----------------------------------------------------------- specification
Call(t) ==
    \/ \E token \in Tokens, item \in Items :
         AddKb(t, token, item.title, item.content)
    \/ \E token \in Tokens, id \in 1..MaxId, item \in Items :
         UpdateKb(t, token, id, item.title, item.content)
    \/ \E token \in Tokens, id \in 1..MaxId : DeleteKb(t, token, id)
    \/ \E q \in Queries, k \in 1..MaxTopK : Chat(t, q, k)

Step(t) ==
    \/ Refresh(t)
    \/ UpdateCommit(t)
    \/ DeleteCommit(t)
    \/ BuildQuery(t)
    \/ BuildSetMapping(t)
    \/ BuildTest(t)
    \/ BuildNone(t)
    \/ BuildEncode(t)
    \/ BuildWriteMapping(t)
    \/ BuildInstall(t)
    \/ QueryIsNone(t)
    \/ QueryNtotal(t)
    \/ QuerySearch(t)
    \/ QueryLen(t)
    \/ QueryGet(t)

\* A call arrives and the pool hands it to its first idle thread, t. One that
\* arrives while another call is being served counts against MaxOverlaps.
Arrive(t) ==
    /\ \A u \in Threads : u < t => pc[u] # "idle"
    /\ AllIdle \/ overlaps < MaxOverlaps
    /\ Call(t)
    /\ overlaps' = IF AllIdle THEN overlaps ELSE overlaps + 1
    /\ tally' = IF AllIdle THEN tally ELSE TallyOff

\* The thread pool: calls arrive while others are being served.
Next == \E t \in Threads : Arrive(t) \/ Step(t)

Spec == Init /\ [][Next]_vars

\* One call at a time: a call arrives only when no other is being served.
NextSeq == \E t \in Threads : (AllIdle /\ Arrive(t)) \/ Step(t)

SpecSeq == Init /\ [][NextSeq]_vars

\* ------------------------------------------------------------------ claims
Mutations == {"add", "update", "delete"}
QueryPcs == {"q_isnone", "q_ntotal", "q_search", "q_len", "q_get"}

\* slot i of the mapping holds the title and content of the i-th row of the store
MappingMirrorsStore ==
    /\ Len(mapping) = Len(store)
    /\ \A i \in 1..Len(store) :
         mapping[i].title = store[i].title /\ mapping[i].content = store[i].content

\* the index and the mapping have the same length and slot i of the index is the
\* vector of mapping entry i
SnapshotConsistent ==
    /\ Len(faiss_index.vecs) = Len(mapping)
    /\ \A i \in 1..Len(mapping) : faiss_index.vecs[i] = Embed(mapping[i].content)

\* C1: with calls served one at a time, once the rebuild of the last mutation
\* has completed the mapping has as many entries as the store, slot i holds the
\* title and content of the i-th row, and the index is absent exactly when the
\* store is empty and otherwise has one vector per mapping slot.
C1_MappingMirrorsStore ==
    (AllIdle /\ latest = "ok_solo")
        => /\ MappingMirrorsStore
           /\ faiss_index.present <=> store # <<>>
           /\ faiss_index.present => Len(faiss_index.vecs) = Len(mapping)

C1_Witness ==
    /\ AllIdle /\ latest = "ok_solo" /\ last.kind = "update"
    /\ Len(store) >= 2 /\ store[1].content # store[2].content

\* C2: a rebuild whose embedding call fails leaves the index and the mapping as
\* they were when it started, so the two are not left partially updated.
C2_FailedRebuildKeepsSnapshot ==
    (last.kind \in Mutations /\ last.status = "EmbedError")
        => ~last.wrote /\ SnapshotConsistent

\* C3: at every point where a query can read them, the mapping and the index
\* have the same length and slot i of the index corresponds to mapping entry i.
C3_QueriesSeeWholeSnapshot ==
    (~embedFailed /\ \E t \in Threads : pc[t] \in QueryPcs) => SnapshotConsistent

\* C4: once overlapping mutations have all returned without embedding failure,
\* the installed mapping equals the final contents of the store.
C4_OverlappingMutationsConverge ==
    (AllIdle /\ ~embedFailed /\ latest \in {"ok_solo", "ok_overlapped"})
        => MappingMirrorsStore

\* C5: once a mutation that no other mutation overlapped has been acknowledged,
\* and while no other mutation is in flight, the index and the mapping a query
\* reads are the ones built from the store as that mutation left it.
C5_AckedMutationIsVisible ==
    (latest = "ok_solo" /\ InFlight = {})
        => /\ MappingMirrorsStore
           /\ faiss_index.present <=> store # <<>>
           /\ Len(faiss_index.vecs) = Len(store)
           /\ \A i \in 1..Len(store) : faiss_index.vecs[i] = Embed(store[i].content)

C5_Witness ==
    /\ latest = "ok_solo" /\ InFlight = {} /\ Len(store) >= 2
    /\ \E t \in Threads : pc[t] = "q_get"

\* the contents of the slots that are real hits of a search, in its order
HitContents(L) ==
    LET hits == SelectSeq(L, LAMBDA i : i >= 0)
    IN [j \in 1..Len(hits) |-> mapping[hits[j] + 1].content]

\* C6: for a non-empty index of n entries and top_k >= 1, the context is the
\* newline-join of the contents of exactly min(top_k, n) distinct slots, each a
\* slot the search returned as a hit.
C6_TopKClampedToCorpus ==
    (/\ last.kind = "chat" /\ last.status = "ok"
     /\ AllIdle /\ ~embedFailed /\ faiss_index.present /\ SnapshotConsistent)
        => \E L \in SearchResults(faiss_index.vecs, Embed(last.q), last.k) :
              last.ret = Join(HitContents(L))

\* the index and mapping are still the ones init_index loaded from the static
\* knowledge-base file: the store was empty at start and nothing was committed since
StaticFallback == latest = "none" /\ kbfile.present /\ store = <<>>

GoodToken(token) ==
    token.present /\ token.sig /\ ~token.expired /\ token.sub # ""

\* a missing or invalid credential
BadToken(token) == ~token.present \/ ~token.sig \/ token.expired

\* C9: update or delete of an id that is not in the store answers NotFound and
\* leaves the store, the index, the mapping and the snapshot files as they
\* were; no rebuild starts.
C9_NotFoundTouchesNothing ==
    [][\A token \in {k \in Tokens : GoodToken(k)} :
       \A id \in {n \in 1..MaxId : \A i \in 1..Len(store) : store[i].id # n} :
       \A t \in {u \in Threads : pc[u] = "idle"} :
         (\/ \E item \in Items : UpdateKb(t, token, id, item.title, item.content)
          \/ DeleteKb(t, token, id))
            => /\ last'.status = "NotFound"
               /\ UNCHANGED <<shared, pc>>]_vars

C9_Witness ==
    last.status = "NotFound" /\ last.kind = "update" /\ store # <<>>

\* C10: add, update or delete with a missing or invalid credential answers
\* Unauthorized and leaves the store, the index, the mapping and the snapshot
\* files as they were; no rebuild starts.
C10_UnauthorizedTouchesNothing ==
    [][\A token \in {k \in Tokens : BadToken(k)} :
       \A t \in {u \in Threads : pc[u] = "idle"} :
         (\/ \E item \in Items : AddKb(t, token, item.title, item.content)
          \/ \E id \in 1..MaxId, item \in Items :
                UpdateKb(t, token, id, item.title, item.content)
          \/ \E id \in 1..MaxId : DeleteKb(t, token, id))
            => /\ last'.status = "Unauthorized"
               /\ UNCHANGED <<shared, pc>>]_vars

C10_Witness ==
    last.status = "Unauthorized" /\ last.kind = "delete" /\ store # <<>>

\* C11: a rebuild that fails on the embedding call leaves the store as the
\* mutation committed it, and the next rebuild that succeeds (no other mutation
\* overlapping it) reconciles the two: after it the mapping equals the listing of
\* the store and the index has one vector per mapping slot, the vector of that
\* slot's content.
C11_NextRebuildReconciles ==
    /\ []((/\ last.kind \in Mutations /\ last.status = "ok" /\ last.prev = "retry"
           /\ latest = "ok_solo" /\ InFlight = {})
              => /\ MappingMirrorsStore
                 /\ SnapshotConsistent
                 /\ faiss_index.present <=> store # <<>>)
    /\ [][\A t \in {u \in Threads : pc[u] = "b_encode"} :
            (pc'[t] = "idle" /\ last'.status = "EmbedError")
                => store' = store]_vars

C11_Witness ==
    /\ last.kind \in Mutations /\ last.status = "ok" /\ last.prev = "retry"
    /\ latest = "ok_solo" /\ InFlight = {}
    /\ Len(store) >= 2 /\ store[1].content # store[2].content

\* C12: with calls served one at a time and no embedding failure, the number of
\* rebuilds run since startup equals the number of mutations acknowledged: a
\* mutation being served has started at most its one rebuild, and calls answered
\* NotFound or Unauthorized and queries leave both counts as they were.
C12_OneRebuildPerMutation ==
    tally.on
        => /\ AllIdle => tally.builds = tally.acks
           /\ tally.builds \in {tally.acks, tally.acks + 1}
           /\ (\E t \in Threads : pc[t] \in QueryPcs) => tally.builds = tally.acks

C12_Witness ==
    /\ tally.on /\ tally.acks = 2 /\ tally.builds = 2
    /\ last.status = "NotFound"

\* C13: after each rebuild that completes, the two snapshot files have the same
\* length, slot i of the index file is the vector of entry i of the mapping
\* file, and the files hold the same entries as the mapping and the index just
\* installed in memory.
C13_PersistedSnapshotMatches ==
    (last.kind \in Mutations /\ last.status = "ok" /\ AllIdle)
        => /\ index_file.present /\ mapping_file.present
           /\ Len(index_file.data) = Len(mapping_file.data)
           /\ \A i \in 1..Len(mapping_file.data) :
                index_file.data[i] = Embed(mapping_file.data[i].content)
           /\ mapping_file.data = mapping
           /\ index_file.data = faiss_index.vecs

\* C14: a rebuild that runs when the store is as the last completed rebuild read
\* it (an update that writes the values a row already has) leaves the mapping
\* and the index contents as they were, so every query gets the same slots at
\* the same distances before and after it.
C14_RebuildIdempotent ==
    [][\A t \in {u \in Threads : pc[u] = "b_install"} :
         (pc'[t] = "idle" /\ latest = "again")
            => /\ ~wrote[t]
               /\ mapping' = mapping
               /\ faiss_index' = faiss_index
               /\ \A q \in Queries :
                    /\ \A k \in 1..MaxTopK :
                         SearchResults(faiss_index'.vecs, Embed(q), k)
                            = SearchResults(faiss_index.vecs, Embed(q), k)
                    /\ \A i \in 1..Len(faiss_index.vecs) :
                         Dist(faiss_index'.vecs[i], Embed(q))
                            = Dist(faiss_index.vecs[i], Embed(q))]_vars

C14_Witness ==
    /\ last.kind = "update" /\ last.status = "ok" /\ last.prev = "again"
    /\ Len(store) >= 2 /\ store[1].content # store[2].content

\* C15: the id an add assigns is fresh: it differs from every id the store has
\* held before, the ids of rows deleted since included.
C15_AddNeverReusesId ==
    [][\A t \in {u \in Threads : pc[u] = "idle"} :
         pc'[t] = "a_refresh" => op'[t].id \notin issued]_vars

\* C16: retrieve_context never raises, and every label it uses to read the
\* mapping is a real search hit (not the -1 padding) that is a position of the
\* mapping as it stands, also while a rebuild is running or after one failed.
C16_RetrieveNeverFailsNorStrays ==
    /\ \A t \in Threads :
         pc[t] = "q_get" => I[t][pos[t]] \in 0..(Len(mapping) - 1)
    /\ last.kind = "chat" => last.status # "Error"
====
